---- MODULE Spec2Model ----
(***************************************************************************)
(* Model of deen/widgets/encoder.py: the chain of DeenWidget stages held   *)
(* by an EncoderWidget, the Qt change-signal cascade between them and the  *)
(* transformer dispatch of DeenWidget.action.                              *)
(*                                                                         *)
(* A stage is a record; the chain is the sequence parent.widgets (1-based  *)
(* here, so widget i of the model is parent.widgets[i-1]).  Every handler  *)
(* is an operator from a chain to the chain it leaves behind; the Qt       *)
(* signals textChanged and currentIndexChanged are direct connections, so  *)
(* a handler that sets a text or a combo index runs the connected slot     *)
(* before it continues.                                                    *)
(*                                                                         *)
(* Spec takes the handling of an event as one step.  SpecSteps runs the    *)
(* same handlers call by call: stack is the call stack of the GUI thread,  *)
(* one frame per handler that has been entered and has not returned.       *)
(***************************************************************************)
EXTENDS Integers, Sequences, FiniteSets, TLC

VARIABLES widgets, crypto, last, stack

vars == <<widgets, crypto, last, stack>>

\* ------------------------------------------------------------------ bounds
MaxStages == 3
MaxLen == 2
MaxDepth == 32

\* ------------------------------------------------------------- byte values
LF == 10
CR == 13
LetterA == 97
HighByte == 255
ReplacementChar == 65533

None == ""

\* string.printable, restricted to the byte values the model uses
PrintableBytes == {LF, CR, LetterA}

\* the byte contents handed to set_root_content
RootData == {<< >>, <<CR>>, <<HighByte>>}

\* the texts a user can leave in an editable text field
TypedText == {<< >>, <<LetterA>>}

\* ------------------------------------------------ conversions (Qt, Python)
\* all(chr(c) in string.printable for c in self._content)
AllPrintable(c) == \A k \in 1..Len(c) : c[k] \in PrintableBytes

\* QTextCodec('UTF-8').toUnicode: ASCII bytes map to themselves, the bytes
\* EF BF BD to U+FFFD, any other byte is invalid and becomes U+FFFD
RECURSIVE ToUnicode(_)
ToUnicode(c) ==
    IF c = << >> THEN << >>
    ELSE IF Len(c) >= 3 /\ c[1] = 239 /\ c[2] = 191 /\ c[3] = 189
         THEN <<ReplacementChar>> \o ToUnicode(SubSeq(c, 4, Len(c)))
    ELSE IF c[1] < 128 THEN <<c[1]>> \o ToUnicode(Tail(c))
    ELSE <<ReplacementChar>> \o ToUnicode(Tail(c))

\* setPlainText followed by toPlainText: the document stores CR LF and a
\* lone CR as a block separator, which toPlainText renders as LF
RECURSIVE PlainText(_)
PlainText(t) ==
    IF t = << >> THEN << >>
    ELSE IF t[1] = CR /\ Len(t) >= 2 /\ t[2] = LF
         THEN <<LF>> \o PlainText(SubSeq(t, 3, Len(t)))
    ELSE IF t[1] = CR THEN <<LF>> \o PlainText(Tail(t))
    ELSE <<t[1]>> \o PlainText(Tail(t))

\* bytearray(text, 'utf8'), for ASCII characters and U+FFFD
RECURSIVE Utf8(_)
Utf8(t) ==
    IF t = << >> THEN << >>
    ELSE IF t[1] < 128 THEN <<t[1]>> \o Utf8(Tail(t))
    ELSE <<239, 191, 189>> \o Utf8(Tail(t))

\* ---------------------------------------------------- operation registry
\* The lists of deen.core and the transformers of deen.transformers.core.
\* The registry of the model holds one encoding, no compression and no
\* named hash: the Encode and Decode combos offer Base64, the Hash combo
\* its 'ALL' item, the Miscellaneous combo X509Certificate, and the
\* Compress and Uncompress combos nothing but their placeholder.
ENCODINGS == {"Base64"}
COMPRESSIONS == {}
HASHS == {}
MISC == {"X509Certificate"}

\* the six combo boxes of create_action_panel with the items they offer
ComboItems ==
    [Encode |-> ENCODINGS, Decode |-> ENCODINGS,
     Compress |-> COMPRESSIONS, Uncompress |-> COMPRESSIONS,
     Hash |-> HASHS \cup {"ALL"}, Miscellaneous |-> MISC]

Combos == DOMAIN ComboItems

\* DeenTransformer.encode: total
TransformerEncode(pick, c) == <<LetterA>> \o c

\* DeenTransformer.decode: (decoded, error); fails on input that is not an
\* encoding, and then hands back no bytes
TransformerDecode(pick, c) ==
    IF c # << >> /\ c[1] = LetterA
    THEN [data |-> Tail(c), error |-> FALSE]
    ELSE [data |-> << >>, error |-> TRUE]

\* DeenTransformer.compress: total, binary output
TransformerCompress(pick, c) == <<HighByte>> \o c

\* DeenTransformer.uncompress: (uncompressed, error)
TransformerUncompress(pick, c) ==
    IF c # << >> /\ c[1] = HighByte
    THEN [data |-> Tail(c), error |-> FALSE]
    ELSE [data |-> << >>, error |-> TRUE]

\* DeenTransformer.hash: total, also for 'ALL' and for empty input
TransformerHash(pick, c) ==
    IF pick = "ALL" THEN <<LetterA, LF>>
    ELSE IF Len(c) % 2 = 0 THEN <<LetterA>> ELSE <<LF>>

\* X509Certificate(content).decode(): raises crypto.Error on input that is
\* not a certificate
X509Decode(c) ==
    IF c # << >> /\ c[1] = HighByte
    THEN [data |-> <<LetterA>>, error |-> FALSE]
    ELSE [data |-> << >>, error |-> TRUE]

\* --------------------------------------------------------------- a widget
\* DeenWidget.__init__; style is the text_field style sheet ("" as built,
\* "red" for 'border: 2px solid red;', "none" for 'border: none;'), label
\* the codec_field text without its 'Transformer: ' prefix ("" = hidden),
\* panel whether the action panel is shown, readonly the constructor argument
\* kept in self.readonly, ro the read-only state of the text field
DeenWidget(readonly, enable_actions) ==
    [content |-> << >>, text |-> << >>, ro |-> readonly,
     pick |-> None, combo |-> None, label |-> None, style |-> "",
     panel |-> enable_actions, readonly |-> readonly]

has_previous(ws, i) == i # 1

has_next(ws, i) == i # Len(ws)

\* self.has_previous() == self, line 99: the bool has_previous returns
\* compared with the widget, which are never equal
BoolEqualsWidget(b, i) == FALSE

\* DeenWidget.previous: the position of the widget returned; the loop of
\* lines 101-103 returns parent.widgets[i - 1], for the root widgets[-1]
previous(ws, i) ==
    IF ~BoolEqualsWidget(has_previous(ws, i), i) THEN i
    ELSE IF i = 1 THEN Len(ws) ELSE i - 1

\* next building its widget with the default readonly=False
nextEditable(ws, i) ==
    IF ~has_next(ws, i) THEN Append(ws, DeenWidget(FALSE, FALSE)) ELSE ws

\* DeenWidget.next: the chain after the call; the widget returned is i + 1
next(ws, i) ==
    IF ~has_next(ws, i) THEN Append(ws, DeenWidget(TRUE, FALSE)) ELSE ws

RECURSIVE PopUntilEmpty(_, _)
RECURSIVE PopUntil(_, _)

\* the loop without the break of lines 379-380
PopUntilEmpty(ws, index) ==
    IF Len(ws) = index THEN ws
    ELSE PopUntilEmpty(SubSeq(ws, 1, Len(ws) - 1), index)

\* the loop of remove_next_widgets for index = index(widget) + offset,
\* given as the length the loop runs towards
PopUntil(ws, index) ==
    IF Len(ws) = index \/ Len(ws) = 1 THEN ws
    ELSE PopUntil(SubSeq(ws, 1, Len(ws) - 1), index)

\* DeenWidget.remove_next_widgets(widget, offset), widget at position i
remove_next_widgets(ws, i, offset) == PopUntil(ws, (i - 1) + offset)

\* In the handlers below f is the position of the widget whose text_field
\* (or hex_field) has the keyboard focus while the event is handled, 0 when
\* no stage has it.  A widget built while the event is handled has no
\* current_pick, so the focus test of field_content_changed is only ever
\* decided by a widget that existed when the event began.
hasFocus(i, f) == i = f

RECURSIVE content_setter(_, _, _, _)
RECURSIVE field_content_changed(_, _, _)
RECURSIVE set_content_next(_, _, _, _)
RECURSIVE action(_, _, _, _, _)

\* the content setter with setReadOnly(not printable) in place of lines
\* 82-83, which makes a read-only field editable for printable content
AssignContentFollowsData(ws, i, data) ==
    [ws EXCEPT ![i].content = data, ![i].ro = ~AllPrintable(data)]

\* content.setter, lines 75-83 with hex_view false: the assignment and the
\* read-only switch for content that is not all printable
AssignContent(ws, i, data) ==
    [ws EXCEPT ![i].content = data,
               ![i].ro = IF AllPrintable(data) THEN @ ELSE TRUE]

\* text_field.setPlainText(self.codec.toUnicode(self._content))
SetPlainText(ws, i) ==
    [ws EXCEPT ![i].text = PlainText(ToUnicode(ws[i].content))]

\* content.setter: setPlainText emits textChanged
content_setter(ws, i, data, f) ==
    field_content_changed(SetPlainText(AssignContent(ws, i, data), i), i, f)

\* field_content_changed, lines 124-125
ShowPanel(ws, i) == [ws EXCEPT ![i].panel = TRUE]

\* field_content_changed taking the branch of lines 126-129 for a read-only
\* widget too, so that nothing is copied into the follower
PropagateNeverCopies(ws, i, f) ==
    IF has_next(ws, i) THEN remove_next_widgets(ws, i, 2) ELSE ws

\* field_content_changed without the truncation of lines 126-129
PropagateKeepsFollowers(ws, i, f) ==
    IF has_next(ws, i) /\ ws[i].ro
        THEN set_content_next(ws, i, ws[i].content, f)
    ELSE ws

\* field_content_changed, lines 126-133: an editable widget keeps one
\* follower, a read-only one copies its content into its follower
Propagate(ws, i, f) ==
    IF has_next(ws, i) /\ ~ws[i].ro THEN remove_next_widgets(ws, i, 2)
    ELSE IF has_next(ws, i) /\ ws[i].ro
        THEN set_content_next(ws, i, ws[i].content, f)
    ELSE ws

\* field_content_changed, lines 134-138 with hex_view false
RereadContent(ws, i) ==
    IF ~ws[i].ro THEN [ws EXCEPT ![i].content = Utf8(ws[i].text)] ELSE ws

\* field_content_changed without the call of action in lines 141-143
ReapplyNever(ws, i, f) == ws

\* field_content_changed, lines 141-143
Reapply(ws, i, f) ==
    IF hasFocus(i, f) /\ ws[i].pick # None
    THEN action(ws, i, None, None, f) ELSE ws

\* DeenWidget.field_content_changed
field_content_changed(ws, i, f) ==
    Reapply(RereadContent(Propagate(ShowPanel(ws, i), i, f), i), i, f)

\* DeenWidget.set_content_next: the content setter of next(), then
\* setPlainText on next() once more
set_content_next(ws, i, content, f) ==
    field_content_changed(
        SetPlainText(
            next(content_setter(next(ws, i), i + 1, content, f), i), i + 1),
        i + 1, f)

\* set_error_next painting the border of the widget itself, not of next()
set_error_nextFlagsSelf(ws, i) ==
    remove_next_widgets([next(ws, i) EXCEPT ![i].style = "red"], i + 1, 1)

\* DeenWidget.set_error_next
set_error_next(ws, i) ==
    remove_next_widgets([next(ws, i) EXCEPT ![i + 1].style = "red"], i + 1, 1)

\* action, lines 412-413: an empty _content is refilled from the text field
RefillContent(ws, i) ==
    IF ws[i].content = << >>
    THEN [ws EXCEPT ![i].content = Utf8(ws[i].text)] ELSE ws

\* action(combo) with lines 417-418 moved before the index test of line 415:
\* current_pick becomes the text of item 0, the title of the combo
actionPlaceholderRemembers(ws, i) ==
    [RefillContent(ws, i) EXCEPT ![i].pick = ws[i].combo]

\* action(combo) with combo.currentIndex() == 0, as run by the
\* currentIndexChanged signal of current_combo.setCurrentIndex(0)
actionPlaceholder(ws, i) == RefillContent(ws, i)

\* action, lines 414-418; cmb/item are the combo and its current text, None
\* for the call without combo made by field_content_changed
Remember(ws, i, cmb, item) ==
    IF cmb # None THEN [ws EXCEPT ![i].combo = cmb, ![i].pick = item] ELSE ws

\* whether action reaches a transformer for (current_combo, current_pick)
Dispatches(cmb, pick, cr) ==
    \/ pick \in ENCODINGS
    \/ pick \in COMPRESSIONS
    \/ pick \in HASHS \/ pick = "ALL"
    \/ pick \in MISC /\ pick = "X509Certificate" /\ cr

\* whether the transformer chosen by (combo, pick) reports an error on c
Fails(cmb, pick, c, cr) ==
    \/ pick \in ENCODINGS /\ cmb # "Encode" /\ TransformerDecode(pick, c).error
    \/ pick \in COMPRESSIONS /\ cmb # "Compress"
          /\ TransformerUncompress(pick, c).error
    \/ pick \notin ENCODINGS \cup COMPRESSIONS \cup HASHS \cup {"ALL"}
          /\ pick \in MISC /\ pick = "X509Certificate" /\ cr
          /\ X509Decode(c).error

\* the bytes action hands to set_content_next
Transformed(cmb, pick, c) ==
    IF pick \in ENCODINGS THEN
        IF cmb = "Encode" THEN TransformerEncode(pick, c)
        ELSE TransformerDecode(pick, c).data
    ELSE IF pick \in COMPRESSIONS THEN
        IF cmb = "Compress" THEN TransformerCompress(pick, c)
        ELSE TransformerUncompress(pick, c).data
    ELSE IF pick \in HASHS \/ pick = "ALL" THEN TransformerHash(pick, c)
    ELSE IF X509Decode(c).error THEN c
    ELSE X509Decode(c).data

\* action, lines 419-452: on an error set_error_next, then set_content_next
Dispatch(ws, i, f) ==
    IF Dispatches(ws[i].combo, ws[i].pick, crypto)
    THEN set_content_next(
             IF Fails(ws[i].combo, ws[i].pick, ws[i].content, crypto)
             THEN set_error_next(ws, i) ELSE ws,
             i,
             Transformed(ws[i].combo, ws[i].pick, ws[i].content),
             f)
    ELSE ws

\* action, lines 453-454: setCurrentIndex(0) emits currentIndexChanged when
\* the combo stood at another index, which is the case iff action was run
\* by the combo
ResetCombo(ws, i, cmb) ==
    IF ws[i].combo # None /\ cmb # None THEN actionPlaceholder(ws, i) ELSE ws

\* action without lines 458-459: the border of next() is left as it is
LabelNextKeepsStyle(ws, i, error) ==
    [ws EXCEPT ![i + 1].label =
                   IF ws[i + 1].ro /\ ws[i].pick # None THEN ws[i].pick ELSE @]

\* action, lines 455-459, on the chain next() leaves; error is the error of
\* the transformer run by this call
LabelNext(ws, i, error) ==
    [ws EXCEPT ![i + 1].label =
                   IF ws[i + 1].ro /\ ws[i].pick # None THEN ws[i].pick ELSE @,
               ![i + 1].style = IF ~error THEN "none" ELSE @]

\* the error of the transformer that action(combo) runs on chain ws
ActionError(ws, i, cmb, item) ==
    Fails(Remember(RefillContent(ws, i), i, cmb, item)[i].combo,
          Remember(RefillContent(ws, i), i, cmb, item)[i].pick,
          RefillContent(ws, i)[i].content, crypto)

\* DeenWidget.action
action(ws, i, cmb, item, f) ==
    LabelNext(
        next(ResetCombo(
                 Dispatch(Remember(RefillContent(ws, i), i, cmb, item), i, f),
                 i, cmb),
             i),
        i, ActionError(ws, i, cmb, item))

\* clear_content on the root without line 329, setReadOnly(False)
ResetRootKeepsReadOnly(ws) ==
    [ws EXCEPT ![1].content = << >>, ![1].pick = None]

\* clear_content on the root without line 331, current_pick = None
ResetRootKeepsPick(ws) == [ws EXCEPT ![1].content = << >>, ![1].ro = FALSE]

\* clear_content, lines 325-331, after text_field.clear() has run
\* field_content_changed
ResetRoot(ws) ==
    [ws EXCEPT ![1].content = << >>, ![1].ro = FALSE, ![1].pick = None]

\* DeenWidget.clear_content(widget), widget at position i
clear_content(ws, i, f) ==
    IF i = 1
    THEN remove_next_widgets(
             ResetRoot(
                 field_content_changed([ws EXCEPT ![1].text = << >>], 1, f)),
             1, 0)
    ELSE remove_next_widgets(ws, i, 0)

\* DeenWidget.move_content_to_root on the widget at position i
move_content_to_root(ws, i, f) ==
    content_setter(clear_content(ws, 1, f), 1, ws[i].content, f)

\* EncoderWidget.set_root_content
set_root_content(ws, data, f) ==
    IF data # << >> THEN content_setter(ws, 1, data, f) ELSE ws

\* ------------------------------------------------------------ the machine
Bounded(ws) ==
    /\ Len(ws) <= MaxStages
    /\ \A k \in 1..Len(ws) : Len(ws[k].content) <= MaxLen

\* the positions the keyboard focus can be at while an event is handled.  The
\* focus is read by field_content_changed alone, together with current_pick,
\* and an event runs field_content_changed on no stage before the first one
\* it writes (lo); the focus anywhere else is the same input as no focus
FocusAt(lo) == {0} \cup {k \in lo..Len(widgets) : widgets[k].pick # None}

\* EncoderWidget.__init__ in a runtime where OpenSSL imports; last names the
\* event handled last, the stage it was raised on, the length the chain had
\* when it was raised, and whether a stage that remembers an operation had
\* the keyboard focus while it was handled
Init ==
    /\ widgets = <<DeenWidget(FALSE, TRUE)>>
    /\ crypto = TRUE
    /\ last = [op |-> "init", idx |-> 0, n |-> 0, focus |-> FALSE]
    /\ stack = << >>

\* EncoderWidget.__init__ in a runtime where the import of OpenSSL failed
InitNoCrypto ==
    /\ widgets = <<DeenWidget(FALSE, TRUE)>>
    /\ crypto = FALSE
    /\ last = [op |-> "init", idx |-> 0, n |-> 0, focus |-> FALSE]
    /\ stack = << >>

\* a caller hands data to set_root_content
SetRootContent ==
    \E data \in RootData, f \in FocusAt(1) :
        /\ widgets' = set_root_content(widgets, data, f)
        /\ Bounded(widgets')
        /\ last' = [op |-> "set_root_content", idx |-> 1, n |-> Len(widgets),
                    focus |-> f # 0]
        /\ UNCHANGED <<crypto, stack>>

\* the user changes the text of the editable text field that has the focus
Edit ==
    \E i \in 1..Len(widgets), t \in TypedText :
        /\ ~widgets[i].ro
        /\ t # widgets[i].text
        /\ widgets' = field_content_changed([widgets EXCEPT ![i].text = t], i, i)
        /\ Bounded(widgets')
        /\ last' = [op |-> "edit", idx |-> i, n |-> Len(widgets),
                    focus |-> widgets[i].pick # None]
        /\ UNCHANGED <<crypto, stack>>

\* the user picks an item of one of the combo boxes of a shown action panel
Select ==
    \E i \in 1..Len(widgets), cmb \in Combos :
        \E item \in ComboItems[cmb], f \in FocusAt(i + 1) :
            /\ widgets[i].panel
            /\ widgets' = action(widgets, i, cmb, item, f)
            /\ Bounded(widgets')
            /\ last' = [op |-> "action", idx |-> i, n |-> Len(widgets),
                        focus |-> f # 0]
            /\ UNCHANGED <<crypto, stack>>

\* the user presses the clear button of a stage
ClearContent ==
    \E i \in 1..Len(widgets) :
      \E f \in FocusAt(IF i = 1 THEN 1 ELSE Len(widgets) + 1) :
        /\ widgets' = clear_content(widgets, i, f)
        /\ last' = [op |-> "clear_content", idx |-> i, n |-> Len(widgets),
                    focus |-> f # 0]
        /\ UNCHANGED <<crypto, stack>>

\* the user presses the move button, which only read-only built widgets show
MoveContentToRoot ==
    \E i \in 2..Len(widgets), f \in FocusAt(1) :
        /\ widgets' = move_content_to_root(widgets, i, f)
        /\ last' = [op |-> "move_content_to_root", idx |-> i, n |-> Len(widgets),
                    focus |-> f # 0]
        /\ UNCHANGED <<crypto, stack>>

Next ==
    \/ SetRootContent
    \/ Edit
    \/ Select
    \/ ClearContent
    \/ MoveContentToRoot

Spec == Init /\ [][Next]_vars

SpecNoCrypto == InitNoCrypto /\ [][Next]_vars

\* ------------------------------------------- the handlers, call by call
\* A frame is a handler that has been entered: h its name, i the position
\* of the widget it runs on (for remove_next_widgets the index its loop runs
\* towards), pc the place it has reached, data/cmb/item its arguments, f the
\* position of the keyboard focus, err the local variable error of action.
Frame(h, i, data, cmb, item, f) ==
    [h |-> h, i |-> i, pc |-> 1, data |-> data, cmb |-> cmb, item |-> item,
     f |-> f, err |-> FALSE]

Top == stack[Len(stack)]

\* the running handler returns to its caller
Return == SubSeq(stack, 1, Len(stack) - 1)

\* the running handler goes on at pc
Resume(pc) == [stack EXCEPT ![Len(stack)].pc = pc]

\* the running handler calls fr and will go on at pc when fr has returned
Call(pc, fr) == Append(Resume(pc), fr)

Running(h) == stack # << >> /\ Top.h = h

\* next() answering the widget it was called on
NextOfSelf(i) == i

\* the position of the widget next() returns for the widget at position i
NextOf(i) == i + 1

\* content.setter: assignment and setPlainText, whose textChanged signal
\* runs field_content_changed before the setter returns
StepContentSetter ==
    /\ Running("content")
    /\ IF Top.pc = 1
       THEN /\ widgets' = SetPlainText(AssignContent(widgets, Top.i, Top.data),
                                       Top.i)
            /\ stack' = Call(2, Frame("field_content_changed", Top.i, << >>,
                                      None, None, Top.f))
       ELSE /\ widgets' = widgets
            /\ stack' = Return
    /\ Len(stack') <= MaxDepth
    /\ UNCHANGED <<crypto, last>>

\* field_content_changed: pc 1 is lines 124-133, pc 2 lines 134-143
StepFieldContentChanged ==
    /\ Running("field_content_changed")
    /\ IF Top.pc = 1
       THEN /\ widgets' = ShowPanel(widgets, Top.i)
            /\ stack' =
                 IF has_next(widgets, Top.i) /\ ~widgets[Top.i].ro
                 THEN Call(2, Frame("remove_next_widgets", (Top.i - 1) + 2,
                                    << >>, None, None, Top.f))
                 ELSE IF has_next(widgets, Top.i) /\ widgets[Top.i].ro
                 THEN Call(2, Frame("set_content_next", Top.i,
                                    widgets[Top.i].content, None, None, Top.f))
                 ELSE Resume(2)
       ELSE IF Top.pc = 2
       THEN /\ widgets' = RereadContent(widgets, Top.i)
            /\ stack' =
                 IF hasFocus(Top.i, Top.f) /\ widgets[Top.i].pick # None
                 THEN Call(3, Frame("action", Top.i, << >>, None, None, Top.f))
                 ELSE Return
       ELSE /\ widgets' = widgets
            /\ stack' = Return
    /\ Len(stack') <= MaxDepth
    /\ UNCHANGED <<crypto, last>>

\* set_content_next: pc 1 is lines 387-392, pc 2 line 393
StepSetContentNext ==
    /\ Running("set_content_next")
    /\ IF Top.pc = 1
       THEN /\ widgets' = next(widgets, Top.i)
            /\ stack' = Call(2, Frame("content", NextOf(Top.i), Top.data,
                                      None, None, Top.f))
       ELSE IF Top.pc = 2
       THEN /\ widgets' = SetPlainText(next(widgets, Top.i), NextOf(Top.i))
            /\ stack' = Call(3, Frame("field_content_changed", NextOf(Top.i),
                                      << >>, None, None, Top.f))
       ELSE /\ widgets' = widgets
            /\ stack' = Return
    /\ Len(stack') <= MaxDepth
    /\ UNCHANGED <<crypto, last>>

\* set_error_next
StepSetErrorNext ==
    /\ Running("set_error_next")
    /\ IF Top.pc = 1
       THEN /\ widgets' = [next(widgets, Top.i) EXCEPT
                               ![NextOf(Top.i)].style = "red"]
            /\ stack' = Call(2, Frame("remove_next_widgets",
                                      (NextOf(Top.i) - 1) + 1,
                                      << >>, None, None, Top.f))
       ELSE /\ widgets' = widgets
            /\ stack' = Return
    /\ Len(stack') <= MaxDepth
    /\ UNCHANGED <<crypto, last>>

\* remove_next_widgets: one pass of the loop of lines 378-384
StepRemoveNextWidgets ==
    /\ Running("remove_next_widgets")
    /\ IF Len(widgets) = Top.i \/ Len(widgets) = 1
       THEN /\ widgets' = widgets
            /\ stack' = Return
       ELSE /\ widgets' = SubSeq(widgets, 1, Len(widgets) - 1)
            /\ stack' = stack
    /\ UNCHANGED <<crypto, last>>

\* action: pc 1 is lines 411-418 and the tests of the dispatch, pc 2 the
\* call of set_content_next, pc 3 lines 453-454, pc 4 lines 455-459.  A
\* frame with a combo and no item is the call made with the combo at index 0
StepAction ==
    /\ Running("action")
    /\ IF Top.pc = 1 /\ Top.cmb # None /\ Top.item = None
       THEN /\ widgets' = actionPlaceholder(widgets, Top.i)
            /\ stack' = Return
       ELSE IF Top.pc = 1
       THEN /\ widgets' = Remember(RefillContent(widgets, Top.i), Top.i,
                                   Top.cmb, Top.item)
            /\ stack' =
                 IF ~Dispatches(widgets'[Top.i].combo, widgets'[Top.i].pick,
                                crypto)
                 THEN Resume(3)
                 ELSE IF Fails(widgets'[Top.i].combo, widgets'[Top.i].pick,
                               widgets'[Top.i].content, crypto)
                 THEN Append([stack EXCEPT ![Len(stack)].pc = 2,
                                           ![Len(stack)].err = TRUE],
                             Frame("set_error_next", Top.i, << >>, None, None,
                                   Top.f))
                 ELSE Resume(2)
       ELSE IF Top.pc = 2
       THEN /\ widgets' = widgets
            /\ stack' = Call(3, Frame("set_content_next", Top.i,
                                      Transformed(widgets[Top.i].combo,
                                                  widgets[Top.i].pick,
                                                  widgets[Top.i].content),
                                      None, None, Top.f))
       ELSE IF Top.pc = 3
       THEN /\ widgets' = widgets
            /\ stack' =
                 IF widgets[Top.i].combo # None /\ Top.cmb # None
                 THEN Call(4, Frame("action", Top.i, << >>, Top.cmb, None,
                                    Top.f))
                 ELSE Resume(4)
       ELSE /\ widgets' = LabelNext(next(widgets, Top.i), Top.i, Top.err)
            /\ stack' = Return
    /\ Len(stack') <= MaxDepth
    /\ UNCHANGED <<crypto, last>>

\* clear_content: pc 1 is line 325 (root) or line 332 (another widget),
\* pc 2 lines 326-332 on the root
StepClearContent ==
    /\ Running("clear_content")
    /\ IF Top.pc = 1 /\ Top.i = 1
       THEN /\ widgets' = [widgets EXCEPT ![1].text = << >>]
            /\ stack' = Call(2, Frame("field_content_changed", 1, << >>,
                                      None, None, Top.f))
       ELSE IF Top.pc = 1
       THEN /\ widgets' = widgets
            /\ stack' = Call(3, Frame("remove_next_widgets", (Top.i - 1) + 0,
                                      << >>, None, None, Top.f))
       ELSE IF Top.pc = 2
       THEN /\ widgets' = ResetRoot(widgets)
            /\ stack' = Call(3, Frame("remove_next_widgets", (Top.i - 1) + 0,
                                      << >>, None, None, Top.f))
       ELSE /\ widgets' = widgets
            /\ stack' = Return
    /\ Len(stack') <= MaxDepth
    /\ UNCHANGED <<crypto, last>>

\* move_content_to_root; data is the local variable content of line 362
StepMoveContentToRoot ==
    /\ Running("move_content_to_root")
    /\ widgets' = widgets
    /\ IF Top.pc = 1
       THEN stack' = Append([stack EXCEPT ![Len(stack)].pc = 2,
                                          ![Len(stack)].data =
                                              widgets[Top.i].content],
                            Frame("clear_content", 1, << >>, None, None, Top.f))
       ELSE IF Top.pc = 2
       THEN stack' = Call(3, Frame("content", 1, Top.data, None, None, Top.f))
       ELSE stack' = Return
    /\ Len(stack') <= MaxDepth
    /\ UNCHANGED <<crypto, last>>

\* EncoderWidget.set_root_content
StepSetRootContent ==
    /\ Running("set_root_content")
    /\ widgets' = widgets
    /\ IF Top.pc = 1 /\ Top.data # << >>
       THEN stack' = Call(2, Frame("content", 1, Top.data, None, None, Top.f))
       ELSE stack' = Return
    /\ Len(stack') <= MaxDepth
    /\ UNCHANGED <<crypto, last>>

\* one step of the handler that is running
Step ==
    \/ StepContentSetter
    \/ StepFieldContentChanged
    \/ StepSetContentNext
    \/ StepSetErrorNext
    \/ StepRemoveNextWidgets
    \/ StepAction
    \/ StepClearContent
    \/ StepMoveContentToRoot
    \/ StepSetRootContent

\* The events, raised while no handler runs (the GUI thread takes the next
\* event when the handler of the last one has returned); the inputs are those
\* of Spec
BeginSetRootContent ==
    \E data \in RootData, f \in FocusAt(1) :
        /\ stack = << >>
        /\ Bounded(set_root_content(widgets, data, f))
        /\ stack' = <<Frame("set_root_content", 1, data, None, None, f)>>
        /\ last' = [op |-> "set_root_content", idx |-> 1, n |-> Len(widgets),
                    focus |-> f # 0]
        /\ UNCHANGED <<widgets, crypto>>

BeginEdit ==
    \E i \in 1..Len(widgets), t \in TypedText :
        /\ stack = << >>
        /\ ~widgets[i].ro
        /\ t # widgets[i].text
        /\ Bounded(field_content_changed([widgets EXCEPT ![i].text = t], i, i))
        /\ widgets' = [widgets EXCEPT ![i].text = t]
        /\ stack' = <<Frame("field_content_changed", i, << >>, None, None, i)>>
        /\ last' = [op |-> "edit", idx |-> i, n |-> Len(widgets),
                    focus |-> widgets[i].pick # None]
        /\ UNCHANGED crypto

BeginSelect ==
    \E i \in 1..Len(widgets), cmb \in Combos :
        \E item \in ComboItems[cmb], f \in FocusAt(i + 1) :
            /\ stack = << >>
            /\ widgets[i].panel
            /\ Bounded(action(widgets, i, cmb, item, f))
            /\ stack' = <<Frame("action", i, << >>, cmb, item, f)>>
            /\ last' = [op |-> "action", idx |-> i, n |-> Len(widgets),
                        focus |-> f # 0]
            /\ UNCHANGED <<widgets, crypto>>

BeginClearContent ==
    \E i \in 1..Len(widgets) :
      \E f \in FocusAt(IF i = 1 THEN 1 ELSE Len(widgets) + 1) :
        /\ stack = << >>
        /\ stack' = <<Frame("clear_content", i, << >>, None, None, f)>>
        /\ last' = [op |-> "clear_content", idx |-> i, n |-> Len(widgets),
                    focus |-> f # 0]
        /\ UNCHANGED <<widgets, crypto>>

BeginMoveContentToRoot ==
    \E i \in 2..Len(widgets), f \in FocusAt(1) :
        /\ stack = << >>
        /\ stack' = <<Frame("move_content_to_root", i, << >>, None, None, f)>>
        /\ last' = [op |-> "move_content_to_root", idx |-> i,
                    n |-> Len(widgets), focus |-> f # 0]
        /\ UNCHANGED <<widgets, crypto>>

NextSteps ==
    \/ BeginSetRootContent
    \/ BeginEdit
    \/ BeginSelect
    \/ BeginClearContent
    \/ BeginMoveContentToRoot
    \/ Step

\* a handler that has been entered runs on: the GUI thread does nothing else
\* until it has returned
SpecSteps == Init /\ [][NextSteps]_vars /\ WF_vars(Step)

\* ----------------------------------------------------------------------
\* What the claims speak of
\* ----------------------------------------------------------------------
\* a stage is error-flagged when its text field has the red border
ErrorFlagged(w) == w.style = "red"

\* the registry's result for the operation that labels stage i, applied to
\* the content stage i - 1 has now: the label is the current_pick of stage
\* i - 1 and its direction the current_combo of stage i - 1
ProducedBy(i) ==
    /\ ~Fails(widgets[i - 1].combo, widgets[i].label,
              widgets[i - 1].content, crypto)
    /\ widgets[i].content =
           Transformed(widgets[i - 1].combo, widgets[i].label,
                       widgets[i - 1].content)

\* the last event was an operation selected on stage last.idx, and its
\* transformer failed on the content the stage had
FailedAction ==
    /\ last.op = "action"
    /\ Fails(widgets[last.idx].combo, widgets[last.idx].pick,
             widgets[last.idx].content, crypto)

\* C1: every stage after the root that is not error-flagged and carries a
\* producing-operation label holds the registry's result of that operation
\* on the current content of the stage before it.
ChainConsistency ==
    \A i \in 2..Len(widgets) :
        (~ErrorFlagged(widgets[i]) /\ widgets[i].label # None)
            => ProducedBy(i)

AssignedToRoot ==
    IF last'.op = "move_content_to_root" THEN widgets[last'.idx].content
    ELSE IF last'.op = "set_root_content" /\ widgets' # widgets
        THEN widgets'[1].content
    ELSE << >>

\* the step clears the root, on its own or as the first half of a promotion
ClearsRoot ==
    \/ last'.op = "move_content_to_root"
    \/ last'.op = "clear_content" /\ last'.idx = 1

ErrorStageIsLast ==
    \A i \in 1..Len(widgets) : ErrorFlagged(widgets[i]) => i = Len(widgets)

\* C4: after an operation selected on stage idx has failed, the chain ends
\* with the error-flagged stage idx + 1.
ErrorContainment ==
    FailedAction =>
        /\ Len(widgets) = last.idx + 1
        /\ ErrorFlagged(widgets[last.idx + 1])

\* C5: X509Certificate selected while OpenSSL is not importable leaves the
\* next stage error-flagged.
UnavailableIsFailure ==
    (/\ last.op = "action"
     /\ widgets[last.idx].pick = "X509Certificate"
     /\ ~crypto)
        => /\ Len(widgets) > last.idx
           /\ ErrorFlagged(widgets[last.idx + 1])

\* C6: after an operation selected on stage idx has failed, stage idx + 1
\* holds no bytes.
FailedTargetEmpty ==
    FailedAction =>
        /\ Len(widgets) > last.idx
        /\ widgets[last.idx + 1].content = << >>

\* C7: move_content_to_root on stage k leaves a chain of the root alone,
\* which holds the content stage k had, is not error-flagged and has
\* neither a producing operation nor a remembered pick.
PromotionLaw ==
    [][last'.op = "move_content_to_root" =>
          /\ Len(widgets') = 1
          /\ widgets'[1].content = widgets[last'.idx].content
          /\ ~ErrorFlagged(widgets'[1])
          /\ widgets'[1].label = None
          /\ widgets'[1].pick = None]_vars

\* C8: once the change handler of an edit of stage idx has returned, the
\* chain holds at most one stage after idx.
TruncationLaw ==
    last.op = "edit" => Len(widgets) <= last.idx + 1

\* C8 witness: the root of a chain of three stages was edited and the
\* remembered operation was applied again
EditTruncatedChain ==
    /\ last.op = "edit"
    /\ last.n >= 3
    /\ last.idx = 1
    /\ Len(widgets) = 2
    /\ widgets[1].pick # None

\* C9: clear_content on a stage k after the root removes the stages after
\* k and nothing else.
ClearKeepsStage ==
    [][(last'.op = "clear_content" /\ last'.idx > 1) =>
          widgets' = SubSeq(widgets, 1, last'.idx)]_vars

\* C10: clear_content on the root leaves the chain EncoderWidget.__init__
\* builds: the root alone, empty, editable, not error-flagged, without a
\* remembered pick (current_combo is the one field it leaves alone).
ClearRootResets ==
    (last.op = "clear_content" /\ last.idx = 1) =>
        widgets = <<[DeenWidget(FALSE, TRUE) EXCEPT !.combo = widgets[1].combo]>>

\* C10 witness: the root was cleared in a chain that had followers and a
\* remembered operation on the root
ClearedRootOfChain ==
    /\ last.op = "clear_content"
    /\ last.idx = 1
    /\ last.n >= 2
    /\ widgets[1].combo # None

\* the operation stage i remembers reaches a transformer
Remembered(i) ==
    /\ widgets[i].pick # None
    /\ Dispatches(widgets[i].combo, widgets[i].pick, crypto)

\* C11 as stated: an edit of a stage leaves the follower the stage had as it
\* was, and gives a stage without a follower none; the follower is only ever
\* recomputed by a selection.
NoSilentReapplication ==
    [][last'.op = "edit" =>
          IF Len(widgets) > last'.idx
          THEN /\ Len(widgets') > last'.idx
               /\ widgets'[last'.idx + 1] = widgets[last'.idx + 1]
          ELSE Len(widgets') = Len(widgets)]_vars

\* C11 amended: a dispatch leaves current_pick set to the item selected, and
\* an edit of a stage that remembers an operation applies it again: the
\* stage then has exactly one follower, which holds the registry's result on
\* the edited content and is error-flagged when the operation failed.
EditReappliesRemembered ==
    /\ last.op = "action" => widgets[last.idx].pick # None
    /\ (last.op = "edit" /\ Remembered(last.idx)) =>
           /\ Len(widgets) = last.idx + 1
           /\ widgets[last.idx + 1].content =
                  Transformed(widgets[last.idx].combo, widgets[last.idx].pick,
                              widgets[last.idx].content)
           /\ widgets[last.idx + 1].label = widgets[last.idx].pick
           /\ ErrorFlagged(widgets[last.idx + 1]) <=>
                  Fails(widgets[last.idx].combo, widgets[last.idx].pick,
                        widgets[last.idx].content, crypto)

\* C11 witness: the root, which remembered an operation and had no follower
\* left, was edited and has a follower with the result again
EditRecomputedFollower ==
    /\ last.op = "edit"
    /\ last.n = 1
    /\ Remembered(1)
    /\ Len(widgets) = 2
    /\ widgets[1].content # << >>
    /\ widgets[2].content # << >>

\* the chain action(cmb) on stage i has built when it reaches line 453,
\* where setCurrentIndex(0) runs action(combo) once more
BeforeComboReset(i, cmb, item, f) ==
    Dispatch(Remember(RefillContent(widgets, i), i, cmb, item), i, f)

\* C12: action(combo) with the combo at index 0 changes no stage and no
\* remembered selection, neither on a chain between two events nor on the
\* chain action has built when its reset of the combo runs it again.
PlaceholderNoOp ==
    /\ \A i \in 1..Len(widgets) : actionPlaceholder(widgets, i) = widgets
    /\ \A i \in 1..Len(widgets), cmb \in Combos :
           \A item \in ComboItems[cmb], f \in FocusAt(i + 1) :
               widgets[i].panel =>
                   ResetCombo(BeforeComboReset(i, cmb, item, f), i, cmb)
                       = BeforeComboReset(i, cmb, item, f)

\* C12 witness: an operation was selected on a stage whose _content is
\* empty, so that line 413 ran in both calls of action
SelectedOnEmptyStage ==
    /\ last.op = "action"
    /\ widgets[last.idx].content = << >>
    /\ widgets[last.idx].pick # None
    /\ Len(widgets) > last.idx

\* what the claims call the content, editability, error flag and producing
\* operation of a stage
Observable(w) == <<w.content, w.ro, ErrorFlagged(w), w.label>>

DerivedStagesReadOnly ==
    \A i \in 2..Len(widgets) : widgets[i].ro

\* C14 witness: clear_content was pressed on the third stage while the root
\* was editable, and a derived stage is left
DerivedStageAfterClear ==
    /\ last.op = "clear_content"
    /\ last.idx = 3
    /\ Len(widgets) = 2
    /\ ~widgets[1].ro

\* C15: the chain is never empty, and its first widget is the one
\* EncoderWidget.__init__ built (the only widget built with the default
\* readonly=False; next() builds all others with readonly=True).
RootNeverRemoved ==
    /\ Len(widgets) >= 1
    /\ ~widgets[1].readonly
    /\ \A i \in 2..Len(widgets) : widgets[i].readonly

\* C15 witness: the third stage of a chain of three was moved to the root,
\* which ran remove_next_widgets on the root with offset 0
PromotedFromThird ==
    /\ last.op = "move_content_to_root"
    /\ last.idx = 3
    /\ Len(widgets) = 1

\* the last event was an operation selected on stage last.idx whose
\* transformer ran without an error
SucceededAction ==
    /\ last.op = "action"
    /\ Remembered(last.idx)
    /\ ~Fails(widgets[last.idx].combo, widgets[last.idx].pick,
              widgets[last.idx].content, crypto)

\* C16: after an operation has succeeded on stage idx, stage idx + 1 exists,
\* is read-only, is not error-flagged and is labelled with the operation.
SuccessRewritesTarget ==
    SucceededAction =>
        /\ Len(widgets) > last.idx
        /\ widgets[last.idx + 1].ro
        /\ ~ErrorFlagged(widgets[last.idx + 1])
        /\ widgets[last.idx + 1].label = widgets[last.idx].pick

\* C16 witness: the operation succeeded on a stage whose follower existed
\* before and had been used itself
SucceededOverExisting ==
    /\ SucceededAction
    /\ last.n > last.idx
    /\ widgets[last.idx + 1].pick # None

\* C17: previous() of a widget after the root is the widget before it, and
\* previous() of the root is the root.
PreviousNavigation ==
    \A i \in 1..Len(widgets) :
        previous(widgets, i) = IF i = 1 THEN 1 ELSE i - 1

\* C20 as stated: a read-only root stays read-only over every step that is
\* neither clear_content on the root nor move_content_to_root,
\* clear_content on the root makes it editable, and set_root_content on a
\* read-only root removes no stage.
ReadOnlySticky ==
    [][widgets[1].ro =>
          /\ ~ClearsRoot => widgets'[1].ro
          /\ (last'.op = "clear_content" /\ last'.idx = 1) => ~widgets'[1].ro
          /\ last'.op = "set_root_content" => Len(widgets') >= Len(widgets)]_vars

\* C20 amended: the same, but set_root_content on a read-only root is only
\* said to leave the length of the chain alone when no stage that remembers
\* an operation has the keyboard focus.
ReadOnlyStickyUnlessReapplied ==
    [][widgets[1].ro =>
          /\ ~ClearsRoot => widgets'[1].ro
          /\ (last'.op = "clear_content" /\ last'.idx = 1) => ~widgets'[1].ro
          /\ (last'.op = "set_root_content" /\ ~last'.focus)
                 => Len(widgets') = Len(widgets)]_vars

\* C20 witness: printable content was assigned to a root that had followers
\* and is still read-only, and the followers are all there
PrintableOnReadOnlyRoot ==
    /\ last.op = "set_root_content"
    /\ widgets[1].ro
    /\ widgets[1].content # << >>
    /\ AllPrintable(widgets[1].content)
    /\ ~last.focus
    /\ last.n >= 2
    /\ Len(widgets) = last.n

\* the read-only stage whose content the step rewrites while it has a
\* follower: the target of a successful operation selected on a stage with
\* two followers or more, or a read-only root with followers that is handed
\* content; 0 when the step is neither
Overwritten ==
    IF /\ last'.op = "action"
       /\ Len(widgets) > last'.idx + 1
       /\ SucceededAction'
    THEN last'.idx + 1
    ELSE IF /\ last'.op = "set_root_content"
            /\ widgets[1].ro
            /\ Len(widgets) > 1
            /\ widgets' # widgets
    THEN 1
    ELSE 0

\* every stage after j is there as before and holds the content of stage j,
\* under the label and with the error flag it had
CopiedDownFrom(j) ==
    /\ Len(widgets') = Len(widgets)
    /\ \A k \in (j + 1)..Len(widgets) :
           /\ widgets'[k].content = widgets'[j].content
           /\ widgets'[k].label = widgets[k].label
           /\ ErrorFlagged(widgets'[k]) = ErrorFlagged(widgets[k])

\* C19 as stated: a step that rewrites a read-only stage j that has a
\* follower removes no stage and leaves every stage after j with a copy of
\* the new content of j, its label and its error flag.
DownstreamCopies ==
    [][Overwritten # 0 => CopiedDownFrom(Overwritten)]_vars

\* C19 amended: the same for the steps during which no stage that remembers
\* an operation has the keyboard focus.
DownstreamCopiesUnlessReapplied ==
    [][(Overwritten # 0 /\ ~last'.focus) => CopiedDownFrom(Overwritten)]_vars

\* C19 witness: an operation succeeded on the root of a chain of three
\* stages, and the third stage holds the non-empty result the second holds
CopiedIntoThird ==
    /\ SucceededAction
    /\ ~last.focus
    /\ last.idx = 1
    /\ last.n = 3
    /\ Len(widgets) = 3
    /\ widgets[2].content # << >>
    /\ widgets[3].content = widgets[2].content
    /\ widgets[3].label # None

\* the positions of the content setters that have been entered, read from
\* the outermost to the innermost, increase strictly and are stages of the
\* chain
SettersAscend ==
    \A a \in 1..Len(stack), b \in 1..Len(stack) :
        (stack[a].h = "content" /\ stack[b].h = "content" /\ a < b)
            => (stack[a].i < stack[b].i /\ stack[b].i <= Len(widgets))

\* a call of action made by the combo reset is the innermost frame, its
\* caller is a call of action made with an item on the same widget, and it
\* calls nothing
ResetReentersOnce ==
    \A k \in 1..Len(stack) :
        (stack[k].h = "action" /\ stack[k].cmb # None /\ stack[k].item = None)
            => /\ k = Len(stack)
               /\ k > 1
               /\ stack[k - 1].h = "action"
               /\ stack[k - 1].item # None
               /\ stack[k - 1].i = stack[k].i
               /\ stack[k - 1].pc = 4

\* C18: every event is handled to completion.  While an event is handled the
\* content setters on the call stack sit on stages of strictly increasing
\* position, the combo reset re-enters action once and that call returns at
\* once, the call stack stays below MaxDepth, and every handler that has
\* been entered returns: the call stack is empty again.
EventsTerminate ==
    /\ [](SettersAscend /\ ResetReentersOnce /\ Len(stack) < MaxDepth)
    /\ (stack # << >>) ~> (stack = << >>)

\* an assignment to the root has cascaded into the content setter of the
\* third stage
CascadeReachedThird ==
    /\ Len(stack) >= 2
    /\ stack[1].h = "set_root_content"
    /\ \E a \in 1..Len(stack) : stack[a].h = "content" /\ stack[a].i = 1
    /\ Top.h = "content"
    /\ Top.i = 3

TypeOK ==
    /\ Len(widgets) \in 1..MaxStages
    /\ crypto \in BOOLEAN

====
